---- MODULE Spec2Model ----
(***************************************************************************)
(* Prototype selection (phylogeny/prototypeSelection.py).                  *)
(*                                                                         *)
(* A call of one of the four functions of the module is a run of the state *)
(* machine: Init fixes the distance matrix and the arguments, the actions  *)
(* are the straight-line entry code, the loop iterations and the return of *)
(* the function called.                                                    *)
(*                                                                         *)
(* Numbers.  Distances are small naturals.  The radius epsilon and the     *)
(* step size of the epsilon search are rationals num/den kept exact; the   *)
(* source computes them in IEEE doubles, which the model abstracts.        *)
(* Indices are 0-based as in numpy; tuples and lists are sequences.        *)
(***************************************************************************)
EXTENDS Integers, Sequences, FiniteSets

(* ------------------------------ bounds --------------------------------- *)

\* largest matrix handed to the three selectors
MaxN == 4
\* largest matrix handed to the epsilon-ball coverage step when called alone
CoverN == 5
\* distances are drawn from 0..MaxDist
MaxDist == 2
\* the step budgets tried are 0..MaxSteps
MaxSteps == 2

\* default of max_combinations_to_test
DefaultMaxCombinations == 200000

VARIABLES
    ids,                        \* dm.ids: the sequence of unique identifiers
    dm,                         \* dm.data: dm[i][j], i, j in 0..n-1
    fn,                         \* the function called
    num_prototypes,             \* argument k of the selectors
    max_combinations_to_test,   \* argument of the exhaustive selector
    steps,                      \* argument of the epsilon search
    epsilon,                    \* argument of _protoclass: [num, den]
    pc,                         \* position in the function called
    loc,                        \* the local variables of the function called
    outcome                     \* [kind, value]: what the call ended with

vars == <<ids, dm, fn, num_prototypes, max_combinations_to_test, steps,
          epsilon, pc, loc, outcome>>

(* --------------------------- DistanceMatrix ---------------------------- *)

IdNames == <<"a", "b", "c", "d", "e", "f", "g">>

Idx(n) == 0 .. (n - 1)

\* the unordered pairs of distinct indices
Pairs(n) == {p \in Idx(n) \X Idx(n) : p[1] < p[2]}

\* the symmetric zero-diagonal matrix with the given upper triangle
Mat(n, u) ==
    [i \in Idx(n) |-> [j \in Idx(n) |->
        IF i = j THEN 0 ELSE IF i < j THEN u[<<i, j>>] ELSE u[<<j, i>>]]]

\* the upper triangles over the distances 0..MaxDist
Triangles(n) == [Pairs(n) -> 0 .. MaxDist]

\* len(dm.ids) and dm.shape[0]
NumIds == Len(ids)

\* position of an id in dm.ids
IndexOf(id) == CHOOSE i \in Idx(NumIds) : ids[i + 1] = id

(* ------------------------------ numpy ---------------------------------- *)

RECURSIVE SumTo(_, _)
\* f[0] + ... + f[m-1]
SumTo(f, m) == IF m = 0 THEN 0 ELSE f[m - 1] + SumTo(f, m - 1)

\* ndarray.argmax(): the first position of the maximum of f over 0..m-1
ArgMax(f, m) ==
    CHOOSE i \in Idx(m) :
        /\ \A j \in Idx(m) : f[j] <= f[i]
        /\ \A j \in Idx(m) : j < i => f[j] < f[i]

\* number of TRUE entries of a boolean vector over 0..m-1
CountTrue(b, m) == Cardinality({x \in Idx(m) : b[x]})

(* ------------------------- distance_sum -------------------------------- *)

\* dm.filter(elements).data: the induced matrix, in the order of elements
Filter(elements) ==
    [a \in Idx(Len(elements)) |-> [b \in Idx(Len(elements)) |->
        dm[IndexOf(elements[a + 1])][IndexOf(elements[b + 1])]]]

\* np.tril: the entries above the diagonal become 0
Tril(m, size) ==
    [a \in Idx(size) |-> [b \in Idx(size) |-> IF b <= a THEN m[a][b] ELSE 0]]

\* distance_sum(elements, dm)
distance_sum(elements) ==
    LET size == Len(elements)
        t == Tril(Filter(elements), size)
    IN  SumTo([a \in Idx(size) |-> SumTo(t[a], size)], size)

(* ------------------- prototype_selection_exhaustive -------------------- *)

NoOutcome == [kind |-> "none", value |-> <<>>]
Raise(kind) == [kind |-> kind, value |-> <<>>]
Return(value) == [kind |-> "returned", value |-> value]

\* no local variable is bound yet
NoLocals == [none |-> TRUE]

RECURSIVE binom(_, _)
\* sp.special.binom(n, k) for integers n >= 0 and k
binom(n, k) ==
    IF k < 0 \/ k > n THEN 0
    ELSE IF k = 0 \/ k = n THEN 1
    ELSE binom(n - 1, k - 1) + binom(n - 1, k)

\* combinations(dm.ids, k): the k-tuples of ids at increasing positions
combinations(k) ==
    {[p \in 1 .. k |-> ids[s[p] + 1]] :
        s \in {t \in [1 .. k -> Idx(NumIds)] :
                 \A p \in 1 .. k, q \in 1 .. k : p < q => t[p] < t[q]}}

\* a faulty variant of ExhaustiveCheck: the ceiling is tested first
ExhaustiveCheck_CeilingFirst(k, n, limit) ==
    IF binom(n, k) >= limit THEN "RuntimeError"
    ELSE IF k < 2 THEN "ValueError"
    ELSE IF k >= n THEN "ValueError"
    ELSE "ok"

\* lines 108-121: the checks of the exhaustive selector, in their order
ExhaustiveCheck(k, n, limit) ==
    IF k < 2 THEN "ValueError"
    ELSE IF k >= n THEN "ValueError"
    ELSE IF binom(n, k) >= limit THEN "RuntimeError"
    ELSE "ok"

\* a faulty variant of ExhaustiveBetter: the comparison is reversed
ExhaustiveBetter_Reversed(d, max_dist) ==
    \A p \in 1 .. Len(max_dist) : d < max_dist[p]

\* line 126: d > max_dist, where max_dist is <<>> for -infinity or <<m>>
ExhaustiveBetter(d, max_dist) == \A p \in 1 .. Len(max_dist) : d > max_dist[p]

\* lines 108-123 and the construction of the set iterated at line 124
ExhaustiveEnter ==
    /\ fn = "exhaustive"
    /\ pc = "start"
    /\ LET chk == ExhaustiveCheck(num_prototypes, NumIds, max_combinations_to_test)
       IN  IF chk = "ok"
           THEN /\ loc' = [num_combinations |-> binom(NumIds, num_prototypes),
                           max_dist |-> <<>>,
                           max_set |-> <<>>,
                           todo |-> combinations(num_prototypes)]
                /\ pc' = "loop"
                /\ UNCHANGED outcome
           ELSE /\ outcome' = Raise(chk)
                /\ pc' = "done"
                /\ UNCHANGED loc
    /\ UNCHANGED <<ids, dm, fn, num_prototypes, max_combinations_to_test,
                   steps, epsilon>>

\* lines 124-127: one iteration; a set is iterated in no specified order
ExhaustiveVisit ==
    /\ fn = "exhaustive"
    /\ pc = "loop"
    /\ \E s \in loc.todo :
          LET d == distance_sum(s)
          IN  loc' = IF ExhaustiveBetter(d, loc.max_dist)
                     THEN [loc EXCEPT !.max_dist = <<d>>, !.max_set = s,
                                      !.todo = @ \ {s}]
                     ELSE [loc EXCEPT !.todo = @ \ {s}]
    /\ UNCHANGED <<ids, dm, fn, num_prototypes, max_combinations_to_test,
                   steps, epsilon, pc, outcome>>

\* line 128, once the iteration is exhausted
ExhaustiveReturn ==
    /\ fn = "exhaustive"
    /\ pc = "loop"
    /\ loc.todo = {}
    /\ outcome' = Return(loc.max_set)
    /\ pc' = "done"
    /\ UNCHANGED <<ids, dm, fn, num_prototypes, max_combinations_to_test,
                   steps, epsilon, loc>>

(* -------------- prototype_selection_constructive_maxdist --------------- *)

\* lines 174-180
MaxdistCheck(k, n) ==
    IF k < 2 THEN "ValueError"
    ELSE IF k >= n THEN "ValueError"
    ELSE "ok"

\* dm.data seen as a flat row-major vector of n*n entries
Flat == [p \in Idx(NumIds * NumIds) |-> dm[p \div NumIds][p % NumIds]]

\* line 189: list(np.unravel_index(dm.data.argmax(), dm.data.shape))
FarthestPair ==
    LET p == ArgMax(Flat, NumIds * NumIds)
    IN  <<p \div NumIds, p % NumIds>>

\* line 190 and line 199: uncovered[positions] = False
MarkCovered(uncovered, positions) ==
    [x \in Idx(NumIds) |->
        IF \E p \in 1 .. Len(positions) : positions[p] = x
        THEN FALSE ELSE uncovered[x]]

\* dm.data[res_set, :].sum(axis=0): a row is added once per occurrence
RowsSum(res_set) ==
    [j \in Idx(NumIds) |->
        SumTo([p \in Idx(Len(res_set)) |-> dm[res_set[p + 1]][j]], Len(res_set))]

\* line 198: (dm.data[res_set, :].sum(axis=0) * uncovered).argmax()
NextPrototype(res_set, uncovered) ==
    LET sums == RowsSum(res_set)
    IN  ArgMax([j \in Idx(NumIds) |-> sums[j] * (IF uncovered[j] THEN 1 ELSE 0)],
               NumIds)

\* line 204: [dm.ids[idx] for idx, x in enumerate(uncovered) if not x]
CoveredIds(uncovered) ==
    LET IsCovered(x) == ~uncovered[x]
        found == SelectSeq([p \in 1 .. NumIds |-> p - 1], IsCovered)
    IN  [p \in 1 .. Len(found) |-> ids[found[p] + 1]]

\* lines 174-192
MaxdistEnter ==
    /\ fn = "maxdist"
    /\ pc = "start"
    /\ LET chk == MaxdistCheck(num_prototypes, NumIds)
           res_set == FarthestPair
       IN  IF chk = "ok"
           THEN /\ loc' = [uncovered |->
                               MarkCovered([x \in Idx(NumIds) |-> TRUE], res_set),
                           distance |-> dm[res_set[1]][res_set[2]],
                           res_set |-> res_set,
                           num_found_prototypes |-> Len(res_set)]
                /\ pc' = "grow"
                /\ UNCHANGED outcome
           ELSE /\ outcome' = Raise(chk)
                /\ pc' = "done"
                /\ UNCHANGED loc
    /\ UNCHANGED <<ids, dm, fn, num_prototypes, max_combinations_to_test,
                   steps, epsilon>>

\* lines 197-201: one iteration of the growth loop
MaxdistGrow ==
    /\ fn = "maxdist"
    /\ pc = "grow"
    /\ loc.num_found_prototypes < num_prototypes
    /\ LET max_elm_idx == NextPrototype(loc.res_set, loc.uncovered)
       IN  loc' = [loc EXCEPT
                     !.uncovered = MarkCovered(@, <<max_elm_idx>>),
                     !.num_found_prototypes = @ + 1,
                     !.res_set = Append(@, max_elm_idx)]
    /\ UNCHANGED <<ids, dm, fn, num_prototypes, max_combinations_to_test,
                   steps, epsilon, pc, outcome>>

\* line 204, once the loop condition fails
MaxdistReturn ==
    /\ fn = "maxdist"
    /\ pc = "grow"
    /\ ~(loc.num_found_prototypes < num_prototypes)
    /\ outcome' = Return(CoveredIds(loc.uncovered))
    /\ pc' = "done"
    /\ UNCHANGED <<ids, dm, fn, num_prototypes, max_combinations_to_test,
                   steps, epsilon, loc>>

(* ----------------------------- _protoclass ----------------------------- *)

\* a faulty variant of Ball: an element is not in its own ball
Ball_WithoutCentre(eps) ==
    [i \in Idx(NumIds) |-> [j \in Idx(NumIds) |->
        i # j /\ dm[i][j] * eps.den < eps.num]]

\* line 244: B = dm.data < epsilon, with epsilon = eps.num / eps.den
Ball(eps) ==
    [i \in Idx(NumIds) |-> [j \in Idx(NumIds) |-> dm[i][j] * eps.den < eps.num]]

\* lines 246-252: the state before the first iteration
ProtoclassStart(eps) ==
    LET B == Ball(eps)
    IN  [covered |-> [x \in Idx(NumIds) |-> 0],
         scores |-> [j \in Idx(NumIds) |->
                        CountTrue([x \in Idx(NumIds) |-> B[x][j]], NumIds)],
         prototypes |-> <<>>,
         i |-> 0,
         done |-> FALSE]

\* a faulty variant of IsCandidate: a ball must cover more than its centre
IsCandidate_MoreThanCentre(score) == score > 1

\* line 259
IsCandidate(score) == score > 0

\* line 263: justcovered = B[:, idx_max] & np.logical_not(covered)
JustCovered(B, covered, idx_max) ==
    [x \in Idx(NumIds) |-> B[x][idx_max] /\ (covered[x] = 0)]

\* line 265: covered += justcovered
CoveredAfter(covered, justcovered) ==
    [x \in Idx(NumIds) |-> covered[x] + (IF justcovered[x] THEN 1 ELSE 0)]

\* a faulty variant of ScoresAfter: every score loses every new element
ScoresAfter_AllNew(B, scores, justcovered) ==
    [j \in Idx(NumIds) |-> scores[j] - CountTrue(justcovered, NumIds)]

\* line 268: scores -= B[justcovered, :].sum(axis=0)
ScoresAfter(B, scores, justcovered) ==
    [j \in Idx(NumIds) |->
        scores[j] - CountTrue([x \in Idx(NumIds) |-> justcovered[x] /\ B[x][j]],
                              NumIds)]

\* lines 254-271: one iteration of the coverage loop
ProtoclassIter(eps, st) ==
    LET B == Ball(eps)
        idx_max == ArgMax(st.scores, NumIds)
        justcovered == JustCovered(B, st.covered, idx_max)
    IN  IF IsCandidate(st.scores[idx_max])
        THEN [st EXCEPT !.i = @ + 1,
                        !.prototypes = Append(@, idx_max),
                        !.covered = CoveredAfter(@, justcovered),
                        !.scores = ScoresAfter(B, @, justcovered)]
        ELSE [st EXCEPT !.i = @ + 1, !.done = TRUE]

RECURSIVE ProtoclassLoop(_, _)
\* lines 253-271: the loop run to its break
ProtoclassLoop(eps, st) ==
    IF st.done THEN st ELSE ProtoclassLoop(eps, ProtoclassIter(eps, st))

\* line 272: np.array(dm.ids)[prototypes]
IdsAt(prototypes) == [p \in 1 .. Len(prototypes) |-> ids[prototypes[p] + 1]]

\* _protoclass(dm, epsilon)
_protoclass(eps) == IdsAt(ProtoclassLoop(eps, ProtoclassStart(eps)).prototypes)

\* lines 244-252
ProtoclassEnter ==
    /\ fn = "_protoclass"
    /\ pc = "start"
    /\ loc' = ProtoclassStart(epsilon)
    /\ pc' = "loop"
    /\ UNCHANGED <<ids, dm, fn, num_prototypes, max_combinations_to_test,
                   steps, epsilon, outcome>>

\* lines 254-268: an iteration that appends a prototype
ProtoclassAppend ==
    /\ fn = "_protoclass"
    /\ pc = "loop"
    /\ ~ProtoclassIter(epsilon, loc).done
    /\ loc' = ProtoclassIter(epsilon, loc)
    /\ UNCHANGED <<ids, dm, fn, num_prototypes, max_combinations_to_test,
                   steps, epsilon, pc, outcome>>

\* lines 254-259 and 269-272: the iteration that breaks, and the return
ProtoclassBreak ==
    /\ fn = "_protoclass"
    /\ pc = "loop"
    /\ ProtoclassIter(epsilon, loc).done
    /\ loc' = ProtoclassIter(epsilon, loc)
    /\ outcome' = Return(IdsAt(loc.prototypes))
    /\ pc' = "done"
    /\ UNCHANGED <<ids, dm, fn, num_prototypes, max_combinations_to_test,
                   steps, epsilon>>

(* ------------- prototype_selection_constructive_protoclass ------------- *)

\* Exact arithmetic of the search: epsilon and stepSize are numerators over
\* Den, which the at most MaxSteps multiplications by 1.1 and divisions by 10
\* of a run leave integral.
Unit == 10 ^ (2 * MaxSteps + 1)
Den == NumIds * NumIds * Unit

\* lines 327-333
ProtoclassCheck(k, n) ==
    IF k < 2 THEN "ValueError"
    ELSE IF k >= n THEN "ValueError"
    ELSE "ok"

\* line 339: dm.data.mean(), as a numerator over Den
Mean ==
    SumTo([i \in Idx(NumIds) |-> SumTo(dm[i], NumIds)], NumIds) * Unit

\* lines 339-347: the state before the first iteration
SearchStart ==
    [epsilon |-> Mean,
     stepSize |-> (2 * Den) \div 10,
     direction |-> 0,
     oldDirection |-> 0,
     oldEpsilon |-> Mean,
     prototypes |-> <<>>,
     i |-> 0,
     found |-> FALSE]

\* lines 357-360: the direction after a coverage run that found `count`
NewDirection(count, k, direction) ==
    IF count > k THEN 1 ELSE IF count < k THEN -1 ELSE direction

\* lines 349-369: one iteration of the search
SearchIter(st, k) ==
    LET oldDirection == st.direction
        oldEpsilon == st.epsilon
        grown == (st.stepSize * 11) \div 10
        prototypes == _protoclass([num |-> st.epsilon, den |-> Den])
        direction == NewDirection(Len(prototypes), k, st.direction)
        stepSize == IF direction # oldDirection THEN grown \div 10 ELSE grown
    IN  [epsilon |-> st.epsilon + direction * stepSize,
         stepSize |-> stepSize,
         direction |-> direction,
         oldDirection |-> oldDirection,
         oldEpsilon |-> oldEpsilon,
         prototypes |-> prototypes,
         i |-> st.i + 1,
         found |-> Len(prototypes) = k]

\* prototypes[:k]
Prefix(prototypes, k) ==
    SubSeq(prototypes, 1, IF k < Len(prototypes) THEN k ELSE Len(prototypes))

\* a faulty variant of SearchEnd: any count other than k is an error
SearchEnd_Strict(prototypes, k) ==
    IF Len(prototypes) # k THEN Raise("RuntimeError")
    ELSE Return(Prefix(prototypes, k))

\* lines 370-374: what the call ends with, given the last prototype list
SearchEnd(prototypes, k) ==
    IF Len(prototypes) < k THEN Raise("RuntimeError")
    ELSE Return(Prefix(prototypes, k))

\* lines 327-347
SearchEnter ==
    /\ fn = "protoclass"
    /\ pc = "start"
    /\ LET chk == ProtoclassCheck(num_prototypes, NumIds)
       IN  IF chk = "ok"
           THEN /\ loc' = SearchStart
                /\ pc' = "search"
                /\ UNCHANGED outcome
           ELSE /\ outcome' = Raise(chk)
                /\ pc' = "done"
                /\ UNCHANGED loc
    /\ UNCHANGED <<ids, dm, fn, num_prototypes, max_combinations_to_test,
                   steps, epsilon>>

\* lines 348-369: an iteration of `for i in range(steps)`
SearchStep ==
    /\ fn = "protoclass"
    /\ pc = "search"
    /\ loc.i < steps
    /\ ~loc.found
    /\ loc' = SearchIter(loc, num_prototypes)
    /\ UNCHANGED <<ids, dm, fn, num_prototypes, max_combinations_to_test,
                   steps, epsilon, pc, outcome>>

\* lines 370-374, after the break or the end of the range
SearchExit ==
    /\ fn = "protoclass"
    /\ pc = "search"
    /\ (loc.found \/ ~(loc.i < steps))
    /\ outcome' = SearchEnd(loc.prototypes, num_prototypes)
    /\ pc' = "done"
    /\ UNCHANGED <<ids, dm, fn, num_prototypes, max_combinations_to_test,
                   steps, epsilon, loc>>

(* --------------------------- specifications ---------------------------- *)

Selectors == {"exhaustive", "maxdist", "protoclass"}

\* the ceilings tried: below, at and above the numbers of combinations
Ceilings == {1, 4, DefaultMaxCombinations}

\* an argument the function called does not take
Unused == "unused"

\* a call of one of the three selectors
Init ==
    /\ \E n \in 2 .. MaxN :
          /\ ids = SubSeq(IdNames, 1, n)
          /\ \E u \in Triangles(n) : dm = Mat(n, u)
    /\ fn \in Selectors
    /\ num_prototypes \in -1 .. (MaxN + 1)
    /\ max_combinations_to_test \in
          (IF fn = "exhaustive" THEN Ceilings ELSE {Unused})
    /\ steps \in (IF fn = "protoclass" THEN 0 .. MaxSteps ELSE {Unused})
    /\ epsilon = [num |-> Unused, den |-> 1]
    /\ pc = "start"
    /\ loc = NoLocals
    /\ outcome = NoOutcome

Next ==
    \/ ExhaustiveEnter
    \/ ExhaustiveVisit
    \/ ExhaustiveReturn
    \/ MaxdistEnter
    \/ MaxdistGrow
    \/ MaxdistReturn
    \/ SearchEnter
    \/ SearchStep
    \/ SearchExit

Spec == Init /\ [][Next]_vars

\* the radii tried: every threshold of the distances, and one below 0
Radii == {[num |-> e, den |-> 1] : e \in -1 .. (MaxDist + 1)}

\* a call of the epsilon-ball coverage step
InitCover ==
    /\ \E n \in 1 .. CoverN :
          /\ ids = SubSeq(IdNames, 1, n)
          /\ \E u \in Triangles(n) : dm = Mat(n, u)
    /\ fn = "_protoclass"
    /\ num_prototypes = Unused
    /\ max_combinations_to_test = Unused
    /\ steps = Unused
    /\ epsilon \in Radii
    /\ pc = "start"
    /\ loc = NoLocals
    /\ outcome = NoOutcome

NextCover ==
    \/ ProtoclassEnter
    \/ ProtoclassAppend
    \/ ProtoclassBreak

SpecCover == InitCover /\ [][NextCover]_vars

(* ------------------------------ claims --------------------------------- *)

Range(seq) == {seq[p] : p \in 1 .. Len(seq)}

NoRepeat(seq) ==
    \A p \in 1 .. Len(seq), q \in 1 .. Len(seq) : p # q => seq[p] # seq[q]

IdSet == Range(ids)

ValidCount == num_prototypes >= 2 /\ num_prototypes < NumIds

Returned == pc = "done" /\ outcome.kind = "returned"

RECURSIVE PairsTotal(_)
\* the sum of the distances of a set of index pairs
PairsTotal(ps) ==
    IF ps = {} THEN 0
    ELSE LET p == CHOOSE q \in ps : TRUE
         IN  dm[p[1]][p[2]] + PairsTotal(ps \ {p})

\* the sum of the pairwise distances within a set of ids
PairSum(S) ==
    PairsTotal({p \in Pairs(NumIds) : ids[p[1] + 1] \in S /\ ids[p[2] + 1] \in S})

KSubsets == {S \in SUBSET IdSet : Cardinality(S) = num_prototypes}

\* number of prototypes the coverage step returns at radius e
Count(e) == Len(_protoclass(e))

\* C1: whenever a selector returns for a valid (matrix, k), it returns
\* exactly k pairwise-distinct ids of the matrix.
C1_ReturnsKDistinctIds ==
    (Returned /\ fn \in Selectors /\ ValidCount) =>
        /\ Len(outcome.value) = num_prototypes
        /\ NoRepeat(outcome.value)
        /\ Range(outcome.value) \subseteq IdSet

\* C2: the exhaustive selector iterates over every size-k subset and
\* returns a size-k subset whose sum of pairwise distances no size-k subset
\* exceeds.
C2_ExhaustiveIsOptimal ==
    /\ (fn = "exhaustive" /\ pc = "loop" /\ loc.max_dist = <<>>) =>
          /\ {Range(s) : s \in loc.todo} = KSubsets
          /\ Cardinality(loc.todo) = Cardinality(KSubsets)
    /\ (fn = "exhaustive" /\ Returned) =>
          /\ loc.todo = {}
          /\ Range(outcome.value) \in KSubsets
          /\ \A S \in KSubsets : PairSum(S) <= PairSum(Range(outcome.value))

C2_Witness ==
    /\ fn = "exhaustive" /\ Returned
    /\ NumIds = 4 /\ num_prototypes = 3
    /\ PairSum(Range(outcome.value)) > 0
    /\ \E S \in KSubsets : PairSum(S) < PairSum(Range(outcome.value))

\* C3: a selector ends with ValueError exactly when k < 2 or k >= n, and
\* it does so before binding any local variable, whatever the ceiling or
\* the step budget.
C3_InvalidCountRejected ==
    (fn \in Selectors /\ pc = "done") =>
        /\ (outcome.kind = "ValueError") <=> ~ValidCount
        /\ (outcome.kind = "ValueError") => (loc = NoLocals)

C3_Witness ==
    /\ fn = "exhaustive" /\ pc = "done"
    /\ num_prototypes = NumIds
    /\ max_combinations_to_test = 1
    /\ outcome.kind = "ValueError"

\* C4: when no radius makes the coverage step return exactly k prototypes,
\* the epsilon search ends with RuntimeError, for any step budget.
C4_NoMatchFails ==
    (/\ fn = "protoclass" /\ pc = "done" /\ ValidCount
     /\ \A e \in {[num |-> r, den |-> 1] : r \in 0 .. (MaxDist + 1)} :
           Count(e) # num_prototypes)
        => outcome.kind = "RuntimeError"

\* the prototype list of the last coverage run of the search
LastRun ==
    IF loc.i = 0 THEN <<>>
    ELSE _protoclass([num |-> loc.oldEpsilon, den |-> Den])

Positions(s) == [p \in 1 .. Len(s) |-> IndexOf(s[p])]

\* lexicographic order of two tuples of the same length
LexLeq(a, b) ==
    \/ a = b
    \/ \E p \in 1 .. Len(a) :
          /\ \A q \in 1 .. (p - 1) : a[q] = b[q]
          /\ a[p] < b[p]

\* C6: among the size-k subsets of maximal sum the exhaustive selector
\* returns the one whose tuple of positions is lexicographically smallest.
C6_FirstMaximalWins ==
    (fn = "exhaustive" /\ Returned) =>
        \A s \in combinations(num_prototypes) :
            distance_sum(s) >= distance_sum(outcome.value)
                => LexLeq(Positions(outcome.value), Positions(s))

\* sum of the distances of element j to the prototypes found so far
ToPrototypes(j, uncovered) ==
    PairsTotal({<<x, j>> : x \in {y \in Idx(NumIds) : ~uncovered[y]}})

\* C7: every growth iteration of the max-distance selector adds an element
\* that is not yet a prototype and whose sum of distances to the current
\* prototypes is maximal among such elements, the lowest index on ties.
C7_GrowthAddsBestUncovered ==
    [][(fn = "maxdist" /\ pc = "grow" /\ pc' = "grow" /\ loc' # loc) =>
          LET e == loc'.res_set[Len(loc'.res_set)]
              S(j) == ToPrototypes(j, loc.uncovered)
          IN  /\ loc.uncovered[e]
              /\ \A j \in Idx(NumIds) :
                    loc.uncovered[j] =>
                        /\ S(j) <= S(e)
                        /\ (S(j) = S(e) => e <= j)]_vars

\* the radii above the radius of the call
LargerRadii == {e \in Radii : e.num > epsilon.num}

\* C8: the coverage step is monotone in the radius: for radii eps1 < eps2
\* the count at eps2 is at most the count at eps1.  Stated for eps1 > 0: at
\* a radius eps1 <= 0 the count is 0, which no count is below.
C8_MonotoneInRadius ==
    (fn = "_protoclass" /\ Returned /\ epsilon.num > 0) =>
        \A e \in LargerRadii : Count(e) <= Len(outcome.value)

\* the larger radius covers every pair of elements
CoversAll(e) ==
    \A i \in Idx(NumIds), j \in Idx(NumIds) : dm[i][j] * e.den < e.num

\* the smaller radius covers no pair of distinct elements
CoversNoPair(e) ==
    \A p \in Pairs(NumIds) : ~(dm[p[1]][p[2]] * e.den < e.num)

\* C8, amended: for radii 0 < eps1 < eps2 the count at eps2 is at most the
\* count at eps1 when eps2 exceeds every distance of the matrix, or when
\* eps1 exceeds no distance between distinct elements.
C8_MonotoneAtTheExtremes ==
    (fn = "_protoclass" /\ Returned /\ epsilon.num > 0) =>
        \A e \in LargerRadii :
            (CoversAll(e) \/ CoversNoPair(epsilon))
                => Count(e) <= Len(outcome.value)

C8_Witness ==
    /\ fn = "_protoclass" /\ Returned /\ epsilon.num > 0
    /\ NumIds = 5
    /\ ~CoversNoPair(epsilon)
    /\ Len(outcome.value) = 3
    /\ \E e \in LargerRadii : CoversAll(e) /\ Count(e) = 1

\* number of elements not yet covered that lie within the radius of j
UncoveredInBall(j) ==
    Cardinality({x \in Idx(NumIds) :
                   loc.covered[x] = 0 /\ dm[x][j] * epsilon.den < epsilon.num})

NumCovered(st) == Cardinality({x \in Idx(NumIds) : st.covered[x] # 0})

====
